---- MODULE Spec2Model ----
(***************************************************************************)
(* A model of the slog core (src/src/lib.rs): the compile-time severity    *)
(* ceiling (__slog_static_max_level), the log!/slog_log! call sites, and    *)
(* the context chain OwnedKeyValueList with its iterator.                   *)
(*                                                                          *)
(* The specifications share the variables:                                  *)
(*   Spec      the context chain: root, new, drop, iter and next;           *)
(*   FairSpec  Spec with every iterator's thread kept running;              *)
(*   LogSpec   one build configuration and the executions of call sites.    *)
(***************************************************************************)
EXTENDS Integers, Sequences, FiniteSets

VARIABLES
    \* ---- build configuration and the last executed call site (LogSpec)
    debug_assertions,   \* cfg!(debug_assertions): TRUE in a non-optimized build
    features,           \* the cargo features enabled for the build
    call,               \* the call site executed last: [macro, form, lvl], or NoCall
    max_level,          \* what __slog_static_max_level() returned to that call site
    records,            \* Records constructed by that execution
    dispatched,         \* calls of $l.log made by that execution
    evaluated,          \* the macro arguments that execution evaluated
    \* ---- context chain arena (Spec)
    nnodes,             \* number of OwnedKeyValueList nodes constructed so far
    parent,             \* parent[n]: the node n's parent field (0 is None)
    values,             \* values[n]: the node n's own group
    strong,             \* strong[n]: the strong count of the Arc holding n
    held,               \* held[n]: the program holds a handle to n
    freed,              \* freed[n]: n has been dropped (its memory reclaimed)
    it                  \* it[i]: the iterator in slot i

logvars == <<debug_assertions, features, call, max_level, records, dispatched, evaluated>>
chainvars == <<nnodes, parent, values, strong, held, freed, it>>
vars == <<debug_assertions, features, call, max_level, records, dispatched, evaluated,
          nnodes, parent, values, strong, held, freed, it>>

(***************************************************************************)
(* Bounds of the model.                                                     *)
(***************************************************************************)
MaxFeatures == 2
MaxNodes == 3
MaxGroup == 2
MaxIters == 2
MaxNones == 2

(***************************************************************************)
(* Levels (included _level.rs, described by the specification sections 3   *)
(* and 4.1: ordinal conversion, Off below every severity).                  *)
(***************************************************************************)
Levels == {"Critical", "Error", "Warning", "Info", "Debug", "Trace"}
FilterLevels == Levels \cup {"Off"}

Level_as_usize(l) ==
    CASE l = "Critical" -> 1
      [] l = "Error" -> 2
      [] l = "Warning" -> 3
      [] l = "Info" -> 4
      [] l = "Debug" -> 5
      [] l = "Trace" -> 6

FilterLevel_as_usize(f) ==
    IF f = "Off" THEN 0 ELSE Level_as_usize(f)

(***************************************************************************)
(* Build-time configuration: the twelve ceiling features.                   *)
(***************************************************************************)
MaxLevelFeatures ==
    {"max_level_off", "max_level_error", "max_level_warn",
     "max_level_info", "max_level_debug", "max_level_trace"}
ReleaseMaxLevelFeatures ==
    {"release_max_level_off", "release_max_level_error", "release_max_level_warn",
     "release_max_level_info", "release_max_level_debug", "release_max_level_trace"}
CeilingFeatures == MaxLevelFeatures \cup ReleaseMaxLevelFeatures

\* the level a ceiling feature names
FeatureLevel(f) ==
    CASE f \in {"max_level_off", "release_max_level_off"} -> "Off"
      [] f \in {"max_level_error", "release_max_level_error"} -> "Error"
      [] f \in {"max_level_warn", "release_max_level_warn"} -> "Warning"
      [] f \in {"max_level_info", "release_max_level_info"} -> "Info"
      [] f \in {"max_level_debug", "release_max_level_debug"} -> "Debug"
      [] f \in {"max_level_trace", "release_max_level_trace"} -> "Trace"

\* lib.rs 589-603: the release_max_level_* cascade of an optimized build;
\* "fallthrough" when the block returns nothing
release_cascade(dbg, feats) ==
    IF ~dbg
    THEN IF "release_max_level_off" \in feats THEN "Off"
         ELSE IF "release_max_level_error" \in feats THEN "Error"
         ELSE IF "release_max_level_warn" \in feats THEN "Warning"
         ELSE IF "release_max_level_info" \in feats THEN "Info"
         ELSE IF "release_max_level_debug" \in feats THEN "Debug"
         ELSE IF "release_max_level_trace" \in feats THEN "Trace"
         ELSE "fallthrough"
    ELSE "fallthrough"

\* mutant: the default of a non-optimized build admits everything
max_level_cascade_trace_default(dbg, feats) ==
    IF "max_level_off" \in feats THEN "Off"
    ELSE IF "max_level_error" \in feats THEN "Error"
    ELSE IF "max_level_warn" \in feats THEN "Warning"
    ELSE IF "max_level_info" \in feats THEN "Info"
    ELSE IF "max_level_debug" \in feats THEN "Debug"
    ELSE IF "max_level_trace" \in feats THEN "Trace"
    ELSE IF ~dbg THEN "Info" ELSE "Trace"

\* mutant: the two defaults are swapped
max_level_cascade_swapped_default(dbg, feats) ==
    IF "max_level_off" \in feats THEN "Off"
    ELSE IF "max_level_error" \in feats THEN "Error"
    ELSE IF "max_level_warn" \in feats THEN "Warning"
    ELSE IF "max_level_info" \in feats THEN "Info"
    ELSE IF "max_level_debug" \in feats THEN "Debug"
    ELSE IF "max_level_trace" \in feats THEN "Trace"
    ELSE IF ~dbg THEN "Debug" ELSE "Info"

\* mutant: the cascade is walked from the least restrictive option
max_level_cascade_trace_first(dbg, feats) ==
    IF "max_level_trace" \in feats THEN "Trace"
    ELSE IF "max_level_debug" \in feats THEN "Debug"
    ELSE IF "max_level_info" \in feats THEN "Info"
    ELSE IF "max_level_warn" \in feats THEN "Warning"
    ELSE IF "max_level_error" \in feats THEN "Error"
    ELSE IF "max_level_off" \in feats THEN "Off"
    ELSE IF ~dbg THEN "Info" ELSE "Debug"

\* lib.rs 604-622: the max_level_* cascade and the defaults
max_level_cascade(dbg, feats) ==
    IF "max_level_off" \in feats THEN "Off"
    ELSE IF "max_level_error" \in feats THEN "Error"
    ELSE IF "max_level_warn" \in feats THEN "Warning"
    ELSE IF "max_level_info" \in feats THEN "Info"
    ELSE IF "max_level_debug" \in feats THEN "Debug"
    ELSE IF "max_level_trace" \in feats THEN "Trace"
    ELSE IF ~dbg THEN "Info" ELSE "Debug"

\* mutant: the max_level_* options are consulted before the release_max_level_* ones
slog_static_max_level_max_first(dbg, feats) ==
    IF feats \cap MaxLevelFeatures # {}
    THEN max_level_cascade(dbg, feats)
    ELSE IF release_cascade(dbg, feats) # "fallthrough"
    THEN release_cascade(dbg, feats)
    ELSE max_level_cascade(dbg, feats)

\* lib.rs 588-623: __slog_static_max_level()
slog_static_max_level(dbg, feats) ==
    IF release_cascade(dbg, feats) # "fallthrough"
    THEN release_cascade(dbg, feats)
    ELSE max_level_cascade(dbg, feats)

(***************************************************************************)
(* The call sites: log! and slog_log!, four arms each.                      *)
(***************************************************************************)
Macros == {"log", "slog_log"}
\* the arms in the order the macros list them
Forms == {"kv_fmt", "fmt", "msg", "msg_kv"}
NoCall == [macro |-> "none", form |-> "none", lvl |-> "none"]

\* the arguments an arm's body evaluates when its guard passes
ArmArguments(form) ==
    CASE form = "kv_fmt" -> {"logger", "format_args", "key_values"}
      [] form = "fmt" -> {"logger", "format_args"}
      [] form = "msg" -> {"logger", "message"}
      [] form = "msg_kv" -> {"logger", "message", "key_values"}

\* mutant: the comparison is inverted
static_guard_inverted(lvl, ceiling) ==
    Level_as_usize(lvl) >= FilterLevel_as_usize(ceiling)

\* the guard every arm starts with:
\* $lvl.as_usize() <= $crate::__slog_static_max_level().as_usize()
static_guard(lvl, ceiling) ==
    Level_as_usize(lvl) <= FilterLevel_as_usize(ceiling)

\* one execution of an arm: the guard evaluates $lvl and the ceiling; the body
\* evaluates the arguments, builds the Record and calls $l.log once
arm_expansion(form, lvl, ceiling) ==
    IF static_guard(lvl, ceiling)
    THEN [max |-> ceiling, records |-> 1, dispatched |-> 1,
          evaluated |-> {"level"} \cup ArmArguments(form)]
    ELSE [max |-> ceiling, records |-> 0, dispatched |-> 0,
          evaluated |-> {"level"}]

\* mutant: the Record and its arguments are built before the guard is tested
log_hoisted(form, lvl, dbg, feats) ==
    LET ceiling == slog_static_max_level(dbg, feats) IN
    [max |-> ceiling, records |-> 1,
     dispatched |-> IF static_guard(lvl, ceiling) THEN 1 ELSE 0,
     evaluated |-> {"level"} \cup ArmArguments(form)]

\* lib.rs 216-277
log(form, lvl, dbg, feats) ==
    arm_expansion(form, lvl, slog_static_max_level(dbg, feats))

\* lib.rs 286-347
slog_log(form, lvl, dbg, feats) ==
    arm_expansion(form, lvl, slog_static_max_level(dbg, feats))

Expand(macro, form, lvl, dbg, feats) ==
    IF macro = "log" THEN log(form, lvl, dbg, feats)
    ELSE slog_log(form, lvl, dbg, feats)

\* lib.rs 353-487: the level macros; each hands its tokens to log! or slog_log!
\* with its own level
LevelMacros ==
    {"crit", "error", "warn", "info", "debug", "trace",
     "slog_crit", "slog_error", "slog_warn", "slog_info", "slog_debug", "slog_trace"}

LevelMacroTarget(name) ==
    IF name \in {"crit", "error", "warn", "info", "debug", "trace"}
    THEN "log" ELSE "slog_log"

LevelMacroLevel(name) ==
    CASE name \in {"crit", "slog_crit"} -> "Critical"
      [] name \in {"error", "slog_error"} -> "Error"
      [] name \in {"warn", "slog_warn"} -> "Warning"
      [] name \in {"info", "slog_info"} -> "Info"
      [] name \in {"debug", "slog_debug"} -> "Debug"
      [] name \in {"trace", "slog_trace"} -> "Trace"

\* one execution of a call site of a level macro
LevelMacroCall(name, form) ==
    LET e == Expand(LevelMacroTarget(name), form, LevelMacroLevel(name),
                    debug_assertions, features) IN
    /\ call' = [macro |-> name, form |-> form, lvl |-> LevelMacroLevel(name)]
    /\ max_level' = e.max
    /\ records' = e.records
    /\ dispatched' = e.dispatched
    /\ evaluated' = e.evaluated
    /\ UNCHANGED <<debug_assertions, features>>
    /\ UNCHANGED chainvars

\* one execution of a call site of log! or slog_log!
LogCall(macro, form, lvl) ==
    LET e == Expand(macro, form, lvl, debug_assertions, features) IN
    /\ call' = [macro |-> macro, form |-> form, lvl |-> lvl]
    /\ max_level' = e.max
    /\ records' = e.records
    /\ dispatched' = e.dispatched
    /\ evaluated' = e.evaluated
    /\ UNCHANGED <<debug_assertions, features>>
    /\ UNCHANGED chainvars

(***************************************************************************)
(* The context chain: OwnedKeyValueList nodes in an arena.  A reference to *)
(* an entry is <<node, index>>; the entry itself is the key at that place. *)
(***************************************************************************)
Nodes == 1..MaxNodes
Iters == 1..MaxIters
\* the code never reads a key, so one key stands for all of them: every two
\* entries then have equal keys
Keys == {"a"}

\* the groups o!(...) can build: every sequence of at most MaxGroup entries
Groups == UNION {[1..k -> Keys] : k \in 0..MaxGroup}

NoIter == [state |-> "none", start |-> 0, next_node |-> 0, node |-> 0, pos |-> 0,
           out |-> <<>>, ret |-> "-", nones |-> 0, loops |-> 0]

\* an iterator borrows the handle it was made from
Borrowed(n) == \E i \in Iters : it[i].state # "none" /\ it[i].start = n

\* dropping one Arc that points to n: the count goes down, and at zero the node
\* is dropped, which drops the Arc in its parent field in turn
RECURSIVE ArcDrop(_, _, _)
ArcDrop(st, fr, n) ==
    IF n = 0 THEN [strong |-> st, freed |-> fr]
    ELSE IF st[n] > 1 THEN [strong |-> [st EXCEPT ![n] = @ - 1], freed |-> fr]
    ELSE ArcDrop([st EXCEPT ![n] = 0], [fr EXCEPT ![n] = TRUE], parent[n])

\* lib.rs 522-527: OwnedKeyValueList::root(values), kept by its owner
Root(g) ==
    /\ nnodes < MaxNodes
    /\ nnodes' = nnodes + 1
    /\ parent' = [parent EXCEPT ![nnodes + 1] = 0]
    /\ values' = [values EXCEPT ![nnodes + 1] = g]
    /\ strong' = [strong EXCEPT ![nnodes + 1] = 1]
    /\ held' = [held EXCEPT ![nnodes + 1] = TRUE]
    /\ UNCHANGED <<freed, it>>
    /\ UNCHANGED logvars

\* mutant: the child's group is also pushed onto the parent's vector
New_extends_parent(g, p, moved) ==
    /\ nnodes < MaxNodes
    /\ p \in 1..nnodes
    /\ held[p]
    /\ moved => ~Borrowed(p)
    /\ nnodes' = nnodes + 1
    /\ parent' = [parent EXCEPT ![nnodes + 1] = p]
    /\ values' = [values EXCEPT ![nnodes + 1] = g,
                                ![p] = @ \o g]
    /\ strong' = [strong EXCEPT ![nnodes + 1] = 1,
                                ![p] = IF moved THEN @ ELSE @ + 1]
    /\ held' = [held EXCEPT ![nnodes + 1] = TRUE,
                            ![p] = ~moved]
    /\ UNCHANGED <<freed, it>>
    /\ UNCHANGED logvars

\* mutant: the parent is linked without a counted handle of its own
New_uncounted_parent(g, p, moved) ==
    /\ nnodes < MaxNodes
    /\ p \in 1..nnodes
    /\ held[p]
    /\ moved => ~Borrowed(p)
    /\ nnodes' = nnodes + 1
    /\ parent' = [parent EXCEPT ![nnodes + 1] = p]
    /\ values' = [values EXCEPT ![nnodes + 1] = g]
    /\ strong' = [strong EXCEPT ![nnodes + 1] = 1]
    /\ held' = [held EXCEPT ![nnodes + 1] = TRUE,
                            ![p] = ~moved]
    /\ UNCHANGED <<freed, it>>
    /\ UNCHANGED logvars

\* lib.rs 514-519: OwnedKeyValueList::new(values, parent).  The parent comes as an
\* Arc by value: the caller's own handle (moved) or a clone of it.
New(g, p, moved) ==
    /\ nnodes < MaxNodes
    /\ p \in 1..nnodes
    /\ held[p]
    /\ moved => ~Borrowed(p)
    /\ nnodes' = nnodes + 1
    /\ parent' = [parent EXCEPT ![nnodes + 1] = p]
    /\ values' = [values EXCEPT ![nnodes + 1] = g]
    /\ strong' = [strong EXCEPT ![nnodes + 1] = 1,
                                ![p] = IF moved THEN @ ELSE @ + 1]
    /\ held' = [held EXCEPT ![nnodes + 1] = TRUE,
                            ![p] = ~moved]
    /\ UNCHANGED <<freed, it>>
    /\ UNCHANGED logvars

\* lib.rs 507-510: the owner of a chain drops it (no iterator borrows it)
Drop(n) ==
    /\ n \in 1..nnodes
    /\ held[n]
    /\ ~Borrowed(n)
    /\ held' = [held EXCEPT ![n] = FALSE]
    /\ strong' = ArcDrop(strong, freed, n).strong
    /\ freed' = ArcDrop(strong, freed, n).freed
    /\ UNCHANGED <<nnodes, parent, values, it>>
    /\ UNCHANGED logvars

\* lib.rs 555-560: OwnedKeyValueListIterator::new(node).  next_node is a reference
\* to a parent field, named by the node that holds the field; the slice iterator
\* is the node whose group it walks and the number of entries already taken.
OwnedKeyValueListIterator_new(n) ==
    [state |-> "idle", start |-> n, next_node |-> n, node |-> n, pos |-> 0,
     out |-> <<>>, ret |-> "-", nones |-> 0, loops |-> 0]

\* lib.rs 543-545: OwnedKeyValueList::iter(&self)
Iter(i, n) ==
    /\ n \in 1..nnodes
    /\ held[n]
    /\ it[i].state = "none"
    /\ it' = [it EXCEPT ![i] = OwnedKeyValueListIterator_new(n)]
    /\ UNCHANGED <<nnodes, parent, values, strong, held, freed>>
    /\ UNCHANGED logvars

\* loop iterations of the running call, this one included
LoopCount(s) == IF s.state = "idle" THEN 1 ELSE s.loops + 1

\* mutant: after moving to the parent the call answers with that group's first
\* step instead of looping
next_loop_no_loop(s) ==
    IF s.pos < Len(values[s.node])
    THEN [s EXCEPT !.pos = @ + 1, !.out = Append(@, <<s.node, s.pos + 1>>),
                   !.ret = "Some", !.state = "idle", !.loops = LoopCount(s)]
    ELSE IF parent[s.next_node] # 0
    THEN IF Len(values[parent[s.next_node]]) = 0
         THEN [s EXCEPT !.node = parent[s.next_node], !.pos = 0,
                        !.next_node = parent[s.next_node],
                        !.ret = "None", !.nones = @ + 1,
                        !.state = "idle", !.loops = LoopCount(s)]
         ELSE [s EXCEPT !.node = parent[s.next_node], !.pos = 0,
                        !.next_node = parent[s.next_node],
                        !.state = "running", !.loops = LoopCount(s)]
    ELSE [s EXCEPT !.ret = "None", !.nones = @ + 1,
                   !.state = "idle", !.loops = LoopCount(s)]

\* mutant: moving to the parent advances next_node but keeps the spent slice
\* iterator
next_loop_keeps_slice(s) ==
    IF s.pos < Len(values[s.node])
    THEN [s EXCEPT !.pos = @ + 1, !.out = Append(@, <<s.node, s.pos + 1>>),
                   !.ret = "Some", !.state = "idle", !.loops = LoopCount(s)]
    ELSE IF parent[s.next_node] # 0
    THEN [s EXCEPT !.next_node = parent[s.next_node],
                   !.state = "running", !.loops = LoopCount(s)]
    ELSE [s EXCEPT !.ret = "None", !.nones = @ + 1,
                   !.state = "idle", !.loops = LoopCount(s)]

\* lib.rs 566-579: one iteration of the loop of next()
next_loop(s) ==
    IF s.pos < Len(values[s.node])
    THEN \* Some(x) => return Some(&*x)
         [s EXCEPT !.pos = @ + 1, !.out = Append(@, <<s.node, s.pos + 1>>),
                   !.ret = "Some", !.state = "idle", !.loops = LoopCount(s)]
    ELSE IF parent[s.next_node] # 0
    THEN \* Some(ref node) => iter = node.values.iter(); next_node = &node.parent
         [s EXCEPT !.node = parent[s.next_node], !.pos = 0,
                   !.next_node = parent[s.next_node],
                   !.state = "running", !.loops = LoopCount(s)]
    ELSE \* None => return None
         [s EXCEPT !.ret = "None", !.nones = @ + 1,
                   !.state = "idle", !.loops = LoopCount(s)]

\* lib.rs 565-580: a whole call of next(), the loop run until it returns
\* (t ranges over the one result of the iteration, so it is computed once)
RECURSIVE next(_)
next(s) ==
    CHOOSE r \in {IF t.state = "idle" THEN t ELSE next(t) : t \in {next_loop(s)}} : TRUE

\* the references an iterator yields when next() is called until it returns None
RECURSIVE Collect(_)
Collect(s) ==
    CHOOSE r \in {IF t.ret = "None" THEN t.out ELSE Collect(t) : t \in {next(s)}} : TRUE

\* lib.rs 543-545, 565-580: the sequence n.iter() produces, run alone
IterAll(n) == Collect(OwnedKeyValueListIterator_new(n))

\* mutant: the position is kept with the chain, so every iterator made from the
\* same node moves together
NextStep_shared_cursor(i) ==
    /\ it[i].state \in {"idle", "running"}
    /\ it[i].state = "idle" => it[i].nones < MaxNones
    /\ it' = [j \in Iters |->
                IF it[j].state # "none" /\ it[j].start = it[i].start
                THEN next_loop(it[i]) ELSE it[j]]
    /\ UNCHANGED <<nnodes, parent, values, strong, held, freed>>
    /\ UNCHANGED logvars

\* lib.rs 565-580: the thread owning iterator i runs one loop iteration of
\* next(); a call made after None is repeated at most MaxNones times
NextStep(i) ==
    /\ it[i].state \in {"idle", "running"}
    /\ it[i].state = "idle" => it[i].nones < MaxNones
    /\ it' = [it EXCEPT ![i] = next_loop(it[i])]
    /\ UNCHANGED <<nnodes, parent, values, strong, held, freed>>
    /\ UNCHANGED logvars

\* lib.rs 549-552: the iterator goes out of scope between two calls
DropIter(i) ==
    /\ it[i].state = "idle"
    /\ it' = [it EXCEPT ![i] = NoIter]
    /\ UNCHANGED <<nnodes, parent, values, strong, held, freed>>
    /\ UNCHANGED logvars

(***************************************************************************)
(* Initial states and specifications.                                       *)
(***************************************************************************)
ChainInit ==
    /\ nnodes = 0
    /\ parent = [n \in Nodes |-> 0]
    /\ values = [n \in Nodes |-> <<>>]
    /\ strong = [n \in Nodes |-> 0]
    /\ held = [n \in Nodes |-> FALSE]
    /\ freed = [n \in Nodes |-> FALSE]
    /\ it = [i \in Iters |-> NoIter]

LogIdle ==
    /\ call = NoCall
    /\ max_level = "none"
    /\ records = 0
    /\ dispatched = 0
    /\ evaluated = {}

\* a build: a profile and a set of enabled ceiling features
LogInit ==
    /\ debug_assertions \in BOOLEAN
    /\ features \in {F \in SUBSET CeilingFeatures : Cardinality(F) <= MaxFeatures}
    /\ LogIdle
    /\ ChainInit

LogNext ==
    \/ \E macro \in Macros, form \in Forms, lvl \in Levels : LogCall(macro, form, lvl)
    \/ \E name \in LevelMacros, form \in Forms : LevelMacroCall(name, form)

LogSpec == LogInit /\ [][LogNext]_vars

\* the chain specification: a default non-optimized build that logs nothing
Init ==
    /\ debug_assertions = TRUE
    /\ features = {}
    /\ LogIdle
    /\ ChainInit

Next ==
    \/ \E g \in Groups : Root(g)
    \/ \E g \in Groups, p \in Nodes, moved \in BOOLEAN : New(g, p, moved)
    \/ \E n \in Nodes : Drop(n)
    \/ \E i \in Iters, n \in Nodes : Iter(i, n)
    \/ \E i \in Iters : NextStep(i)
    \/ \E i \in Iters : DropIter(i)

Spec == Init /\ [][Next]_vars

\* the thread that owns an iterator keeps running it: a call of next() that has
\* started goes on, and the caller repeats next() until it has seen None
FairSpec == Spec /\ \A i \in Iters : WF_vars(NextStep(i))

(***************************************************************************)
(* Properties of the call sites and of the static ceiling (LogSpec).       *)
(***************************************************************************)
Called == call # NoCall
CallArguments == {"logger", "message", "format_args", "key_values"}
ReleaseEnabled == features \cap ReleaseMaxLevelFeatures
MaxEnabled == features \cap MaxLevelFeatures
NoCeilingOption == features \cap CeilingFeatures = {}

\* C3: for every arm of log!/slog_log! and every level, one execution builds one
\* Record and calls the logger's log once when the level's ordinal is at most the
\* ordinal of the ceiling __slog_static_max_level() returned; otherwise it builds
\* no Record, dispatches nothing and evaluates none of the logger, message,
\* format-argument or key/value expressions.
C3_StaticGuardDecidesDispatch ==
    Called =>
        /\ max_level = slog_static_max_level(debug_assertions, features)
        /\ IF Level_as_usize(call.lvl) <= FilterLevel_as_usize(max_level)
           THEN /\ records = 1
                /\ dispatched = 1
           ELSE /\ records = 0
                /\ dispatched = 0
                /\ evaluated \cap CallArguments = {}

\* C3 witness: a debug-level call under an error-and-above ceiling was executed
\* and left nothing behind.
C3_Witness ==
    /\ Called
    /\ call.lvl = "Debug"
    /\ call.form = "kv_fmt"
    /\ max_level = "Error"
    /\ records = 0
    /\ dispatched = 0
    /\ evaluated = {"level"}

\* C4 (as the specification states it): with no ceiling option the ceiling is
\* Trace in a non-optimized build (all six severities dispatched) and Info in an
\* optimized build (Critical, Error, Warning, Info dispatched).
C4_DefaultCeilingAsClaimed ==
    (Called /\ NoCeilingOption) =>
        /\ max_level = IF debug_assertions THEN "Trace" ELSE "Info"
        /\ dispatched = 1 <=>
              \/ debug_assertions
              \/ call.lvl \in {"Critical", "Error", "Warning", "Info"}

\* C4 (amended): with no ceiling option the ceiling is Debug in a non-optimized
\* build (Critical, Error, Warning, Info, Debug dispatched; Trace not) and Info
\* in an optimized build (Critical, Error, Warning, Info dispatched).
C4_DefaultCeiling ==
    (Called /\ NoCeilingOption) =>
        /\ max_level = IF debug_assertions THEN "Debug" ELSE "Info"
        /\ dispatched = 1 <=>
              \/ call.lvl \in {"Critical", "Error", "Warning", "Info"}
              \/ debug_assertions /\ call.lvl = "Debug"

\* C4 witness: a trace-level call in a non-optimized build without ceiling
\* options was executed and not dispatched.
C4_Witness ==
    /\ Called
    /\ NoCeilingOption
    /\ debug_assertions
    /\ call.lvl = "Trace"
    /\ max_level = "Debug"
    /\ dispatched = 0

\* C5: by default trace-level and debug-level statements are never dispatched in
\* release builds, and trace-level statements are never dispatched in debug
\* builds.
C5_DefaultRemovesTraceAndDebug ==
    (Called /\ NoCeilingOption) =>
        /\ (~debug_assertions /\ call.lvl \in {"Trace", "Debug"}) =>
              (records = 0 /\ dispatched = 0)
        /\ (debug_assertions /\ call.lvl = "Trace") =>
              (records = 0 /\ dispatched = 0)

\* C5 witness: a debug! statement of a default release build was executed.
C5_Witness ==
    /\ Called
    /\ call.macro = "debug"
    /\ NoCeilingOption
    /\ ~debug_assertions
    /\ call.lvl = "Debug"
    /\ dispatched = 0

\* C6: the release_max_level_* options override in optimized builds only: in an
\* optimized build with one of them enabled the ceiling is one they name and is
\* the same whatever max_level_* options are enabled; in an optimized build with
\* none of them the max_level_* option (if any) decides; in a non-optimized
\* build the release_max_level_* options never change the ceiling.
C6_ReleaseOptionsOverrideOptimizedOnly ==
    Called =>
        /\ (~debug_assertions /\ ReleaseEnabled # {}) =>
              /\ max_level \in {FeatureLevel(f) : f \in ReleaseEnabled}
              /\ \A M \in SUBSET MaxLevelFeatures :
                    slog_static_max_level(FALSE, ReleaseEnabled \cup M) = max_level
        /\ (~debug_assertions /\ ReleaseEnabled = {} /\ MaxEnabled # {}) =>
              max_level \in {FeatureLevel(f) : f \in MaxEnabled}
        /\ debug_assertions =>
              /\ MaxEnabled # {} => max_level \in {FeatureLevel(f) : f \in MaxEnabled}
              /\ \A R \in SUBSET ReleaseMaxLevelFeatures :
                    slog_static_max_level(TRUE, MaxEnabled \cup R) = max_level

\* C6 witness: an optimized build with release_max_level_warn and max_level_trace
\* executed a call site under the ceiling Warning.
C6_Witness ==
    /\ Called
    /\ ~debug_assertions
    /\ features = {"release_max_level_warn", "max_level_trace"}
    /\ max_level = "Warning"

\* the ceiling is Off: max_level_off effective, or release_max_level_off in an
\* optimized build
OffEffective ==
    \/ ~debug_assertions /\ "release_max_level_off" \in features
    \/ "max_level_off" \in features /\ (debug_assertions \/ ReleaseEnabled = {})

\* C7: whenever the static ceiling is Off, no call at any of the six severities
\* builds a Record or reaches the logger.
C7_OffExcludesEveryRecord ==
    (Called /\ (OffEffective \/ max_level = "Off")) =>
        /\ max_level = "Off"
        /\ records = 0
        /\ dispatched = 0
        /\ evaluated \cap CallArguments = {}

\* C7 witness: a critical-level call under release_max_level_off in an optimized
\* build was executed.
C7_Witness ==
    /\ Called
    /\ ~debug_assertions
    /\ "release_max_level_off" \in features
    /\ call.lvl = "Critical"
    /\ max_level = "Off"
    /\ dispatched = 0

\* the options that decide the ceiling: release_max_level_* in an optimized build
\* that enables any of them, max_level_* otherwise
DecidingOptions ==
    IF ~debug_assertions /\ ReleaseEnabled # {} THEN ReleaseEnabled ELSE MaxEnabled

\* the fixed priority, most restrictive first
Priority == <<"Off", "Error", "Warning", "Info", "Debug", "Trace">>
PriorityRank(l) == CHOOSE k \in 1..Len(Priority) : Priority[k] = l

\* C11: when several options of the deciding set are enabled together, the
\* ceiling __slog_static_max_level() returns is the most restrictive of them in
\* the priority Off, Error, Warning, Info, Debug, Trace: its ordinal is the
\* minimum of the ordinals of the enabled options of the deciding set.
C11_MostRestrictiveOptionWins ==
    (Called /\ DecidingOptions # {}) =>
        /\ max_level \in {FeatureLevel(f) : f \in DecidingOptions}
        /\ \A f \in DecidingOptions :
              /\ PriorityRank(max_level) <= PriorityRank(FeatureLevel(f))
              /\ FilterLevel_as_usize(max_level)
                    <= FilterLevel_as_usize(FeatureLevel(f))

\* C11 witness: a build with max_level_trace and max_level_warn together ran an
\* info-level call under the ceiling Warning, which eliminated it.
C11_Witness ==
    /\ Called
    /\ debug_assertions
    /\ features = {"max_level_trace", "max_level_warn"}
    /\ DecidingOptions = features
    /\ max_level = "Warning"
    /\ call.lvl = "Info"
    /\ dispatched = 0

(***************************************************************************)
(* Properties of the context chain (Spec).                                  *)
(***************************************************************************)
\* the nodes of the chain of n, from n to the root
RECURSIVE ChainNodes(_)
ChainNodes(n) == IF n = 0 THEN {} ELSE {n} \cup ChainNodes(parent[n])

Depth(n) == Cardinality(ChainNodes(n))

\* the references of n's own group in insertion order, then those of its parent's
\* chain
RECURSIVE ChainRefs(_)
ChainRefs(n) ==
    IF n = 0 THEN <<>>
    ELSE [k \in 1..Len(values[n]) |-> <<n, k>>] \o ChainRefs(parent[n])

\* the sum of the group sizes from n to the root
RECURSIVE TotalSize(_)
TotalSize(n) == IF n = 0 THEN 0 ELSE Len(values[n]) + TotalSize(parent[n])

\* the entries a sequence of references points to
KeysOf(refs) == [k \in 1..Len(refs) |-> values[refs[k][1]][refs[k][2]]]

IsPrefix(a, b) == Len(a) <= Len(b) /\ a = SubSeq(b, 1, Len(a))

Range(f) == {f[x] : x \in DOMAIN f}

Active(i) == it[i].state # "none"
Finished(i) == it[i].state = "idle" /\ it[i].ret = "None"

\* C1: iter() yields the node's own group first, then the parent's, and so on to
\* the root, each group in insertion order and every entry exactly once, equal
\* keys included; for C = new(groups, P) the sequence is groups followed by
\* iter(P).
C1_IterYieldsChildToRoot ==
    \A i \in Iters : Active(i) =>
        LET s == it[i]
            n == s.start
        IN  /\ IsPrefix(s.out, ChainRefs(n))
            /\ Cardinality(Range(s.out)) = Len(s.out)
            /\ Finished(i) =>
                  /\ s.out = ChainRefs(n)
                  /\ Len(s.out) = TotalSize(n)
                  /\ s.out =
                        [k \in 1..Len(values[n]) |-> <<n, k>>]
                           \o (IF parent[n] = 0 THEN <<>> ELSE IterAll(parent[n]))
                  /\ KeysOf(s.out) =
                        values[n] \o (IF parent[n] = 0 THEN <<>>
                                      ELSE KeysOf(IterAll(parent[n])))

\* C1 witness: a parent group holding key a twice, a child adding a a third time,
\* a root holding it once more, and a finished iteration of the child.
C1_Witness ==
    \E i \in Iters :
        /\ Finished(i)
        /\ values[it[i].start] = <<"a">>
        /\ parent[it[i].start] # 0
        /\ values[parent[it[i].start]] = <<"a", "a">>
        /\ parent[parent[it[i].start]] # 0
        /\ values[parent[parent[it[i].start]]] = <<"a">>
        /\ KeysOf(it[i].out) = <<"a", "a", "a", "a">>
        /\ it[i].out = <<<<it[i].start, 1>>,
                         <<parent[it[i].start], 1>>, <<parent[it[i].start], 2>>,
                         <<parent[parent[it[i].start]], 1>>>>

\* C2: no step changes the group, the parent link or the iteration result of a
\* chain that exists and is still alive: building children, grandchildren and
\* siblings and iterating them leaves every other chain as it was.
C2_ChainsNeverChange ==
    [][\A n \in Nodes : (n <= nnodes /\ ~freed'[n]) =>
          /\ values'[n] = values[n]
          /\ parent'[n] = parent[n]
          /\ IterAll(n)' = IterAll(n)]_vars

\* C2 witness: a parent with two children, one of them iterated to the end, the
\* parent still held.
C2_Witness ==
    \E c1 \in Nodes, c2 \in Nodes, i \in Iters :
        /\ c1 # c2
        /\ c1 <= nnodes
        /\ c2 <= nnodes
        /\ parent[c1] # 0
        /\ parent[c1] = parent[c2]
        /\ held[parent[c1]]
        /\ values[parent[c1]] # <<>>
        /\ Finished(i)
        /\ it[i].start = c1

\* C8: a node is reclaimed only when no live chain references it, directly or
\* through parent links: every held chain and every iterator reaches only live
\* nodes all the way to the root.
C8_ReclaimedOnlyWhenUnreferenced ==
    /\ \A n \in Nodes : (n <= nnodes /\ held[n]) =>
          \A m \in ChainNodes(n) : ~freed[m]
    /\ \A n \in Nodes : freed[n] =>
          /\ ~held[n]
          /\ \A c \in Nodes : (c <= nnodes /\ parent[c] = n) => freed[c]
    /\ \A i \in Iters : Active(i) =>
          /\ {it[i].node, it[i].next_node} \subseteq ChainNodes(it[i].start)
          /\ \A m \in ChainNodes(it[i].start) : ~freed[m]

\* C8 witness: the parent's own handle is gone, a sibling chain has been
\* reclaimed, and the remaining child has iterated through the parent to the end.
C8_Witness ==
    \E c \in Nodes, sib \in Nodes, i \in Iters :
        /\ c <= nnodes
        /\ held[c]
        /\ parent[c] # 0
        /\ ~held[parent[c]]
        /\ ~freed[parent[c]]
        /\ values[parent[c]] # <<>>
        /\ sib <= nnodes
        /\ parent[sib] = parent[c]
        /\ freed[sib]
        /\ Finished(i)
        /\ it[i].start = c

ChainUnchanged ==
    /\ nnodes' = nnodes
    /\ parent' = parent
    /\ values' = values
    /\ strong' = strong
    /\ held' = held
    /\ freed' = freed

\* what every iterator has yielded is what it yields when run alone
YieldsAsAlone ==
    \A i \in Iters : Active(i) =>
        /\ IsPrefix(it[i].out, IterAll(it[i].start))
        /\ Finished(i) => it[i].out = IterAll(it[i].start)

\* C9: under every interleaving of the loop steps of next() of several iterators
\* over chains that share nodes, a step of one iterator changes neither the chain
\* nor another iterator, each iterator yields the sequence it yields when run
\* alone, and a fresh iter() starts at the node's own first entry.
C9_ConcurrentIteratorsIndependent ==
    [][/\ \A i \in Iters : it'[i] # it[i] =>
             /\ \A j \in Iters \ {i} : it'[j] = it[j]
             /\ ChainUnchanged
       /\ YieldsAsAlone'
       /\ \A i \in Iters : (~Active(i) /\ Active(i)') =>
             /\ it'[i].node = it'[i].start
             /\ it'[i].pos = 0
             /\ it'[i].out = <<>>]_vars

\* C9 witness: two iterators over sibling chains have both yielded entries and
\* neither has finished; one of them is inside next(), in the shared parent.
C9_Witness ==
    /\ it[1].state = "running"
    /\ it[2].state = "idle"
    /\ it[1].start # it[2].start
    /\ parent[it[1].start] # 0
    /\ parent[it[1].start] = parent[it[2].start]
    /\ it[1].node = parent[it[1].start]
    /\ it[1].out # <<>>
    /\ it[2].out # <<>>
    /\ it[2].node = parent[it[2].start]

\* what holds of every iterator at every moment: a call has run at most as many
\* loop iterations as the chain has nodes, at most the sum of the group sizes has
\* been yielded, None comes only after exactly that many entries, and after a
\* None every return is None
NextBounded ==
    \A i \in Iters : Active(i) =>
        LET s == it[i] IN
        /\ s.loops <= Depth(s.start)
        /\ Len(s.out) <= TotalSize(s.start)
        /\ Finished(i) => Len(s.out) = TotalSize(s.start)
        /\ (s.nones >= 1 /\ s.state = "idle") => s.ret = "None"
        /\ s.nones >= 1 => Len(s.out) = TotalSize(s.start)

\* C10: repeated next() terminates: an iterator that is kept and run reaches
\* None, every call returning within as many loop iterations as the chain has
\* nodes; None comes after exactly as many entries as the sum of the group sizes
\* from the node to the root, whichever groups are empty; once next() has
\* returned None every later call returns None.
C10_NextTerminatesAfterAllEntries ==
    /\ []NextBounded
    /\ \A i \in Iters : Active(i) ~> (Finished(i) \/ ~Active(i))
    /\ \A i \in Iters : (it[i].state = "running") ~> (it[i].state = "idle")

\* C10 witness: the node's own group and its parent's group are empty, the root's
\* is not; the iterator yielded the root's entries and has returned None twice.
C10_Witness ==
    \E i \in Iters :
        /\ Finished(i)
        /\ it[i].nones >= 2
        /\ values[it[i].start] = <<>>
        /\ parent[it[i].start] # 0
        /\ values[parent[it[i].start]] = <<>>
        /\ parent[parent[it[i].start]] # 0
        /\ values[parent[parent[it[i].start]]] # <<>>
        /\ Len(it[i].out) = Len(values[parent[parent[it[i].start]]])

====
